---- MODULE Spec2Model ----
(***************************************************************************)
(* The frame loop of the rasterizer demo (src/src/main.cpp) and of its     *)
(* earlier colour-only version (src/unnamed/part_000), as a state machine  *)
(* over the statements of main().  The windowing library, the rasterizer   *)
(* backend, the overlay and the image allocator are the environment: the   *)
(* model records the calls made into them and the handles they return.     *)
(*                                                                         *)
(* C++ indices are 0-based, TLA+ sequences 1-based: attachments[1] is the  *)
(* colour attachment (attachments[0] in the source) and attachments[2] the *)
(* depth attachment (attachments[1] in the source).                        *)
(***************************************************************************)
EXTENDS Integers, Sequences, FiniteSets, TLC

VARIABLES
    variant,          \* which main() is running: MainCpp or Part000
    allocMayFail,     \* environment: may image_allocate return nullptr
    pc,               \* position of main()
    rast,             \* shared_ptr<Rasterizer>: [ptr, refs], ptr Empty or <<Rasterizer>>
    window,           \* unique_ptr<Window>: Empty or <<Window>>
    imguiContext,     \* ImGui::CreateContext() done and not yet destroyed
    imguiBound,       \* window->InitImGui() done
    renderer,         \* unique_ptr<ImGuiRenderer> holds a renderer
    closeRequested,   \* the window's close-request flag
    fbSize,           \* the window's live framebuffer size <<width, height>>
    images,           \* the image_t heap: handle -> image record
    attachments,      \* std::vector<image_t*> attachments (or &backbuffer)
    fb,               \* framebuffer fb: [attachment_count, width, height]
    clearValues,      \* static const std::vector<image_pixel> clearValues
    showDemo,         \* static bool showDemo (part_000)
    t0,               \* time of the previous frame
    cameraTheta,      \* the orbit angle, in milliradians; time is in seconds
    uniforms,         \* Uniforms: [Projection, View]
    exception,        \* the std::runtime_error in flight, or NoException
    backendClear,     \* arguments of the last framebuffer_clear, or << >>
    backendDraw,      \* arguments of the last render_indexed, or << >>
    allocLog,         \* every image_allocate call: [width, height, format, result]
    freeLog,          \* every image_free call: [ptr, site]
    valLog,           \* the last two ValidateDepthBuffer calls
    steps,            \* the calls of the current loop iteration, in order
    acquired,         \* resources in the order main() acquired them
    released,         \* resources in the order main() released them
    randStream,       \* the values rand() returns next, repeating
    instances,        \* std::array<Instance, 6> instances
    pipeline,         \* struct pipeline pipeline, or << >> before it is built
    call,             \* indexed_render_call call, or << >> before it is built
    createFails       \* which of the backend's create calls return NULL

vars == <<variant, allocMayFail, pc, rast, window, imguiContext, imguiBound,
          renderer, closeRequested, fbSize, images, attachments, fb,
          clearValues, showDemo, t0, cameraTheta, uniforms, exception,
          backendClear, backendDraw, allocLog, freeLog, valLog, steps,
          acquired, released, randStream, instances, pipeline, call,
          createFails>>

sceneVars == <<randStream, instances, pipeline, call>>

(***************************************************************************)
(* Bounds of the model.                                                    *)
(***************************************************************************)
MaxImages == 3          \* depth images the allocator hands out in one run
MaxAllocFailures == 1   \* image_allocate calls that return nullptr
MaxTime == 2            \* the clock stops advancing here
MaxDelta == 2           \* largest elapsed time between two frames
MaxAttachments == 3     \* attachment counts tried on ClearFramebuffer
MaxClearValues == 3     \* longest clear-value list tried on ClearFramebuffer

Widths == {800, 1600}
Heights == {600, 900}
Sizes == Widths \X Heights

(***************************************************************************)
(* Constants of the program.                                               *)
(***************************************************************************)
Null == 0
MainCpp == "main.cpp"
Part000 == "part_000"
InitialSize == <<1600, 900>>
ClearColor == 2021161215     \* 0x787878FF
ClearDepth == 1              \* 1.f
NoException == "none"
AttachmentSizeMismatch == "Attachment size mismatch!"
WindowHandle == 1
RasterizerHandle == 1
BackbufferHandle == 1        \* images[1] is the window's backbuffer
ThetaRate == 100             \* 0.1f rad per second, in milliradians

ColorPixel == [kind |-> "color", value |-> ClearColor]
DepthPixel == [kind |-> "depth", value |-> ClearDepth]

Min(a, b) == IF a < b THEN a ELSE b

IsPrefix(s, t) == Len(s) <= Len(t) /\ SubSeq(t, 1, Len(s)) = s

RECURSIVE Reverse(_)
Reverse(s) == IF s = << >> THEN << >> ELSE Append(Reverse(Tail(s)), Head(s))

LastTwo(s) == IF Len(s) <= 2 THEN s ELSE SubSeq(s, Len(s) - 1, Len(s))

(***************************************************************************)
(* The image allocator (graphics/image.h), as main() uses it.              *)
(***************************************************************************)
DepthImageCount == Len(allocLog) - Len(SelectSeq(allocLog, LAMBDA a : a.result = Null))
AllocFailures == Len(SelectSeq(allocLog, LAMBDA a : a.result = Null))

\* image_allocate(width, height, format): the handles it may return.
AllocateResults ==
    {Len(images) + 1} \cup
    (IF allocMayFail /\ AllocFailures < MaxAllocFailures THEN {Null} ELSE {})

\* The heap after image_allocate returned `result`.
ImageAllocate(heap, result, width, height, format) ==
    IF result = Null THEN heap
    ELSE Append(heap, [width |-> width, height |-> height, format |-> format,
                       owner |-> "main", live |-> TRUE])

\* The heap after image_free(ptr); image_free(nullptr) releases nothing.
ImageFree(heap, ptr) ==
    IF ptr = Null THEN heap ELSE [heap EXCEPT ![ptr].live = FALSE]

\* The heap after image_free on each of ptrs, in order.
RECURSIVE FreeAll(_, _)
FreeAll(heap, ptrs) ==
    IF ptrs = << >> THEN heap
    ELSE FreeAll(ImageFree(heap, Head(ptrs)), Tail(ptrs))

FreeRecords(ptrs, site) == [i \in 1..Len(ptrs) |-> [ptr |-> ptrs[i], site |-> site]]

\* Faulty variants of ValidateFrees: nullptr is not passed to image_free;
\* the old image is not freed at all.
ValidateFreesGuarded(buffer) == IF buffer = Null THEN << >> ELSE <<buffer>>

ValidateFreesNone(buffer) == << >>

\* The image_free calls of ValidateDepthBuffer on a mismatch
\* (src/src/main.cpp:191): one, on *buffer, null or not.
ValidateFrees(buffer) == <<buffer>>

(***************************************************************************)
(* src/src/main.cpp:178-184                                                *)
(***************************************************************************)
\* Faulty variants of IsDepthBufferValid: the height is not compared; the
\* comparison is inverted; the size is not compared at all.
IsDepthBufferValidWidthOnly(buffer, width, height) ==
    IF buffer = Null THEN FALSE
    ELSE images[buffer].width = width

IsDepthBufferValidInverted(buffer, width, height) ==
    IF buffer = Null THEN FALSE
    ELSE images[buffer].width # width \/ images[buffer].height # height

IsDepthBufferValidAnySize(buffer, width, height) ==
    buffer # Null

IsDepthBufferValid(buffer, width, height) ==
    IF buffer = Null THEN FALSE
    ELSE images[buffer].width = width /\ images[buffer].height = height

(***************************************************************************)
(* Rasterizer::ClearFramebuffer, src/src/main.cpp:86-92 and                *)
(* src/unnamed/part_000:84-90: throws on a count mismatch, otherwise       *)
(* forwards to framebuffer_clear.                                          *)
(***************************************************************************)
\* Faulty variant: only a list that is too short is rejected.
ClearFramebufferTooShortOnly(fbr, values) ==
    IF Len(values) < fbr.attachment_count
    THEN /\ exception' = AttachmentSizeMismatch
         /\ UNCHANGED backendClear
    ELSE /\ backendClear' = <<[fb |-> fbr, attachments |-> attachments,
                               values |-> values]>>
         /\ UNCHANGED exception

ClearFramebuffer(fbr, values) ==
    IF Len(values) # fbr.attachment_count
    THEN /\ exception' = AttachmentSizeMismatch
         /\ UNCHANGED backendClear
    ELSE /\ backendClear' = <<[fb |-> fbr, attachments |-> attachments,
                               values |-> values]>>
         /\ UNCHANGED exception

(***************************************************************************)
(* The scene: src/src/main.cpp:138-154 and 211-304.  Lengths are in        *)
(* hundredths; an instance's rotation is 2 pi * step / steps.              *)
(***************************************************************************)
InstanceCount == 6           \* std::array<Instance, 6>
ChannelCount == 3            \* for (size_t j = 0; j < 3; j++)
AlphaByte == 255             \* instance.Color = 0xFF
ByteMask == 255              \* rand() & 0xFF
BitsPerChannel == 8          \* (j + 1) * 8
WordBits == 32               \* std::uint32_t Color

s_Vertices == <<<<0, -50, 0>>, <<50, 50, 0>>, <<-50, 50, 0>>>>
s_Indices == <<0, 1, 2>>

\* What rand() may return, and the streams tried in the frame loop.
RandValues == {0, 127, 128, 255, 511}
RandStreams == {<<0, 127, 128, 255, 511>>, <<255, 255, 255>>}

RECURSIVE Pow2(_)
Pow2(n) == IF n = 0 THEN 1 ELSE 2 * Pow2(n - 1)

\* A 32-bit word is the sequence of its bits, lowest first.  ToWord is the
\* conversion of a non-negative int, whose top bit is clear.
ToWord(x) ==
    [k \in 1..WordBits |-> IF k = WordBits THEN 0 ELSE (x \div Pow2(k - 1)) % 2]

BitOr(a, b) == [k \in 1..WordBits |-> IF a[k] = 1 \/ b[k] = 1 THEN 1 ELSE 0]

BitAnd(a, b) == [k \in 1..WordBits |-> IF a[k] = 1 /\ b[k] = 1 THEN 1 ELSE 0]

\* x << n, kept to 32 bits by the conversion to std::uint32_t.
ShiftLeft32(x, n) == [k \in 1..WordBits |-> IF k > n THEN x[k - n] ELSE 0]

\* The value of the 8 bits of word x that start at bit 8 * b.
RECURSIVE BitsValue(_, _, _)
BitsValue(x, from, count) ==
    IF count = 0 THEN 0
    ELSE x[from + 1] + 2 * BitsValue(x, from + 1, count - 1)

ByteAt(x, b) == BitsValue(x, b * BitsPerChannel, BitsPerChannel)

\* rand(): the next value of the stream, and the stream after it.
Rotate(stream) == Tail(stream) \o <<Head(stream)>>

\* Faulty variant: the first channel is shifted by 0 bits, over the alpha.
RECURSIVE PackChannelsFromBitZero(_, _, _)
PackChannelsFromBitZero(color, stream, j) ==
    IF j >= ChannelCount THEN color
    ELSE PackChannelsFromBitZero(
             BitOr(color, ShiftLeft32(BitAnd(ToWord(Head(stream)), ToWord(ByteMask)), j * BitsPerChannel)),
             Rotate(stream), j + 1)

\* src/src/main.cpp:246-249, from channel j on.
RECURSIVE PackChannels(_, _, _)
PackChannels(color, stream, j) ==
    IF j >= ChannelCount THEN color
    ELSE PackChannels(
             BitOr(color, ShiftLeft32(BitAnd(ToWord(Head(stream)), ToWord(ByteMask)), (j + 1) * BitsPerChannel)),
             Rotate(stream), j + 1)

RECURSIVE RotateBy(_, _)
RotateBy(stream, n) == IF n = 0 THEN stream ELSE RotateBy(Rotate(stream), n - 1)

\* src/src/main.cpp:241-283: instances i, i + 1, ... appended to done.
RECURSIVE GenerateInstances(_, _, _)
GenerateInstances(done, stream, i) ==
    IF i >= InstanceCount THEN [instances |-> done, stream |-> stream]
    ELSE GenerateInstances(
             Append(done, [Color |-> PackChannels(ToWord(AlphaByte), stream, 0),
                           Model |-> [scale |-> 25, step |-> i,
                                      steps |-> InstanceCount,
                                      translation |-> <<0, 0, -50>>]]),
             RotateBy(stream, ChannelCount), i + 1)

PipelineInit ==
    [working_size |-> 4, vertex_stage |-> "VertexShader",
     fragment_stage |-> "FragmentShader", inter_stage_parameter_count |-> 1,
     depth |-> [test |-> TRUE, write |-> TRUE], binding_count |-> 2,
     cull_back |-> FALSE, winding |-> "WINDING_ORDER_CCW",
     topology |-> "TOPOLOGY_TYPE_TRIANGLES"]

CallInit(insts) ==
    [pipeline |-> "&pipeline", framebuffer |-> "&fb", vertices |-> "vbufs.data()",
     uniform_data |-> "&uniforms", indices |-> "s_Indices.data()",
     index_count |-> Len(s_Indices), instance_count |-> Len(insts)]

(***************************************************************************)
(* Where main() goes next; the two versions differ in three places.        *)
(***************************************************************************)
\* Faulty variant: the depth attachment is not validated.
AfterBackbufferSkipsValidate == IF variant = MainCpp THEN "camera" ELSE "clear"

AfterBackbuffer == IF variant = MainCpp THEN "validate" ELSE "clear"
AfterClear == IF variant = MainCpp THEN "draw" ELSE "overlay"
AfterLoop == IF variant = MainCpp THEN "free_depth" ELSE "reset_renderer"

\* The statements after the loop, in the order main() runs them
\* (src/src/main.cpp:361-368).
\* Faulty variant: the ImGui context is destroyed before the window.
AfterShutdownStepReverseOfAcquisition(p) ==
    CASE p = "free_depth" -> "reset_renderer"
      [] p = "reset_renderer" -> "destroy_context"
      [] p = "destroy_context" -> "reset_window"
      [] p = "reset_window" -> "reset_rast"
      [] OTHER -> "done"

AfterShutdownStep(p) ==
    CASE p = "free_depth" -> "reset_renderer"
      [] p = "reset_renderer" -> "reset_window"
      [] p = "reset_window" -> "destroy_context"
      [] p = "destroy_context" -> "reset_rast"
      [] OTHER -> "done"

\* What the opaque backend does when handed a null attachment, or one that
\* is not an image, is not known: it may dereference it and crash, or skip it.
BackendOutcomes(next) ==
    IF \E i \in 1..Len(attachments) :
          attachments[i] = Null \/ ~images[attachments[i]].live
    THEN {"crashed", next} ELSE {next}

\* A unique_ptr or shared_ptr that owns nothing; one that owns an object is
\* the one-element sequence of that object.
Empty == << >>

\* window_create and rasterizer_create: the backend's handle, or NULL.
window_create == IF "window" \in createFails THEN Null ELSE WindowHandle
rasterizer_create == IF "rasterizer" \in createFails THEN Null ELSE RasterizerHandle

\* Window::Create, src/src/main.cpp:27-35: nullptr, or a Window around the
\* handle.
Window_Create(handle) ==
    IF handle = Null THEN Empty ELSE <<[m_Window |-> handle]>>

\* Rasterizer::Create, src/src/main.cpp:70-77: an empty shared_ptr, or the
\* only owner of a Rasterizer around the handle.
Rasterizer_Create(handle) ==
    IF handle = Null THEN [ptr |-> Empty, refs |-> 0]
    ELSE [ptr |-> <<[m_Rasterizer |-> handle]>>, refs |-> 1]

\* ptr->Member(...): through a null pointer the behaviour is undefined; the
\* process may die of the access, or go on with whatever the access read.
Deref(ptr, next) == IF ptr = Empty THEN {"crashed", next} ELSE {next}

(***************************************************************************)
(* Setup: src/src/main.cpp:197-310, src/unnamed/part_000:118-132           *)
(***************************************************************************)
RasterizerCreate ==
    /\ pc = "create_rast"
    /\ rast' = Rasterizer_Create(rasterizer_create)
    /\ acquired' = IF rasterizer_create = Null THEN acquired
                   ELSE Append(acquired, "rasterizer")
    /\ pc' = "create_window"
    /\ UNCHANGED <<sceneVars, createFails, variant, allocMayFail, window, imguiContext, imguiBound,
                   renderer, closeRequested, fbSize, images, attachments, fb,
                   clearValues, showDemo, t0, cameraTheta, uniforms, exception,
                   backendClear, backendDraw, allocLog, freeLog, valLog, steps,
                   released>>

\* Window::Create("Test", 1600, 900).  The window owns its backbuffer; the
\* window system may already have asked for the window to close.
WindowCreate ==
    /\ pc = "create_window"
    /\ window' = Window_Create(window_create)
    /\ fbSize' = InitialSize
    /\ images' = <<[width |-> InitialSize[1], height |-> InitialSize[2],
                    format |-> "color", owner |-> "window", live |-> window_create # Null]>>
    /\ \E close \in BOOLEAN : closeRequested' = close
    /\ acquired' = IF window_create = Null THEN acquired
                   ELSE Append(acquired, "window")
    /\ pc' = "create_context"
    /\ UNCHANGED <<sceneVars, createFails, variant, allocMayFail, rast, imguiContext, imguiBound,
                   renderer, attachments, fb, clearValues, showDemo, t0,
                   cameraTheta, uniforms, exception, backendClear, backendDraw,
                   allocLog, freeLog, valLog, steps, released>>

ImGuiCreateContext ==
    /\ pc = "create_context"
    /\ imguiContext' = TRUE
    /\ acquired' = Append(acquired, "imgui_context")
    /\ pc' = "init_imgui"
    /\ UNCHANGED <<sceneVars, createFails, variant, allocMayFail, rast, window, imguiBound, renderer,
                   closeRequested, fbSize, images, attachments, fb, clearValues,
                   showDemo, t0, cameraTheta, uniforms, exception, backendClear,
                   backendDraw, allocLog, freeLog, valLog, steps, released>>

WindowInitImGui ==
    /\ pc = "init_imgui"
    /\ imguiBound' = TRUE
    /\ \E next \in Deref(window, "create_renderer") : pc' = next
    /\ UNCHANGED <<sceneVars, createFails, variant, allocMayFail, rast, window, imguiContext, renderer,
                   closeRequested, fbSize, images, attachments, fb, clearValues,
                   showDemo, t0, cameraTheta, uniforms, exception, backendClear,
                   backendDraw, allocLog, freeLog, valLog, steps, acquired,
                   released>>

\* std::make_unique<ImGuiRenderer>(rast): the renderer keeps a copy of rast.
ImGuiRendererCreate ==
    /\ pc = "create_renderer"
    /\ renderer' = TRUE
    /\ rast' = [rast EXCEPT !.refs = IF rast.ptr = Empty THEN @ ELSE @ + 1]
    /\ acquired' = Append(acquired, "imgui_renderer")
    /\ \E next \in Deref(rast.ptr, "setup") : pc' = next
    /\ UNCHANGED <<sceneVars, createFails, variant, allocMayFail, window, imguiContext, imguiBound,
                   closeRequested, fbSize, images, attachments, fb, clearValues,
                   showDemo, t0, cameraTheta, uniforms, exception, backendClear,
                   backendDraw, allocLog, freeLog, valLog, steps, released>>

\* attachments = { nullptr, nullptr } (main.cpp) or backbuffer = nullptr
\* (part_000); fb.attachment_count; clearValues; t0; cameraTheta.
AttachmentsInit == IF variant = MainCpp THEN <<Null, Null>> ELSE <<Null>>
AttachmentCount == IF variant = MainCpp THEN Len(AttachmentsInit) ELSE 1
\* Faulty variant: the depth clear value is missing.
ClearValuesInitColorOnly == <<ColorPixel>>

ClearValuesInit ==
    IF variant = MainCpp THEN <<ColorPixel, DepthPixel>> ELSE <<ColorPixel>>

SetupScene ==
    /\ pc = "setup"
    /\ attachments' = AttachmentsInit
    /\ fb' = [fb EXCEPT !.attachment_count = AttachmentCount]
    /\ clearValues' = ClearValuesInit
    /\ t0' = 0
    /\ cameraTheta' = 0
    /\ IF variant = MainCpp
       THEN LET made == GenerateInstances(<< >>, randStream, 0)
            IN  /\ instances' = made.instances
                /\ randStream' = made.stream
                /\ pipeline' = <<PipelineInit>>
                /\ call' = <<CallInit(made.instances)>>
       ELSE UNCHANGED sceneVars
    /\ pc' = "while"
    /\ UNCHANGED <<createFails, variant, allocMayFail, rast, window, imguiContext,
                   imguiBound, renderer, closeRequested, fbSize, images,
                   showDemo, uniforms, exception, backendClear, backendDraw,
                   allocLog, freeLog, valLog, steps, acquired, released>>

(***************************************************************************)
(* The frame loop: src/src/main.cpp:312-359, src/unnamed/part_000:133-151  *)
(***************************************************************************)
\* Faulty variant: the loop condition is inverted.
WhileCloseRequested ==
    /\ pc = "while"
    /\ IF ~closeRequested
       THEN pc' = AfterLoop /\ UNCHANGED steps
       ELSE pc' = "poll" /\ steps' = << >>
    /\ UNCHANGED <<sceneVars, createFails, variant, allocMayFail, rast, window, imguiContext,
                   imguiBound, renderer, closeRequested, fbSize, images,
                   attachments, fb, clearValues, showDemo, t0, cameraTheta,
                   uniforms, exception, backendClear, backendDraw, allocLog,
                   freeLog, valLog, acquired, released>>

\* while (!window->IsCloseRequested())
WhileNotCloseRequested ==
    /\ pc = "while"
    /\ IF closeRequested
       THEN (\E next \in Deref(window, AfterLoop) : pc' = next) /\ UNCHANGED steps
       ELSE (\E next \in Deref(window, "poll") : pc' = next) /\ steps' = << >>
    /\ UNCHANGED <<sceneVars, createFails, variant, allocMayFail, rast, window, imguiContext,
                   imguiBound, renderer, closeRequested, fbSize, images,
                   attachments, fb, clearValues, showDemo, t0, cameraTheta,
                   uniforms, exception, backendClear, backendDraw, allocLog,
                   freeLog, valLog, acquired, released>>

\* Window::Poll(): the window system delivers its events here: the
\* framebuffer may have been resized and the user may have asked to close.
\* The close-request flag is never reset by main().
WindowPoll ==
    /\ pc = "poll"
    /\ \E size \in Sizes, close \in BOOLEAN :
          /\ size # fbSize => DepthImageCount < MaxImages
          /\ fbSize' = size
          /\ images' = [images EXCEPT ![BackbufferHandle].width = size[1],
                                      ![BackbufferHandle].height = size[2]]
          /\ closeRequested' = (closeRequested \/ close)
    /\ steps' = Append(steps, "poll")
    /\ pc' = "new_frame"
    /\ UNCHANGED <<sceneVars, createFails, variant, allocMayFail, rast, window, imguiContext,
                   imguiBound, renderer, attachments, fb, clearValues,
                   showDemo, t0, cameraTheta, uniforms, exception, backendClear,
                   backendDraw, allocLog, freeLog, valLog, acquired, released>>

\* ImGui::NewFrame(); part_000 then shows the demo window while showDemo is
\* set, and the user may close it.
ImGuiNewFrame ==
    /\ pc = "new_frame"
    /\ IF variant = Part000 /\ showDemo
       THEN \E open \in BOOLEAN : showDemo' = open
       ELSE UNCHANGED showDemo
    /\ steps' = Append(steps, "new_frame")
    /\ pc' = "imgui_render"
    /\ UNCHANGED <<sceneVars, createFails, variant, allocMayFail, rast, window, imguiContext,
                   imguiBound, renderer, closeRequested, fbSize, images,
                   attachments, fb, clearValues, t0, cameraTheta, uniforms,
                   exception, backendClear, backendDraw, allocLog, freeLog,
                   valLog, acquired, released>>

ImGuiRender ==
    /\ pc = "imgui_render"
    /\ steps' = Append(steps, "imgui_render")
    /\ pc' = "get_size"
    /\ UNCHANGED <<sceneVars, createFails, variant, allocMayFail, rast, window, imguiContext,
                   imguiBound, renderer, closeRequested, fbSize, images,
                   attachments, fb, clearValues, showDemo, t0, cameraTheta,
                   uniforms, exception, backendClear, backendDraw, allocLog,
                   freeLog, valLog, acquired, released>>

\* window->GetFramebufferSize(&fb.width, &fb.height)
GetFramebufferSize ==
    /\ pc = "get_size"
    /\ fb' = [fb EXCEPT !.width = fbSize[1], !.height = fbSize[2]]
    /\ steps' = Append(steps, "get_size")
    /\ \E next \in Deref(window, "get_backbuffer") : pc' = next
    /\ UNCHANGED <<sceneVars, createFails, variant, allocMayFail, rast, window, imguiContext,
                   imguiBound, renderer, closeRequested, fbSize, images,
                   attachments, clearValues, showDemo, t0, cameraTheta,
                   uniforms, exception, backendClear, backendDraw, allocLog,
                   freeLog, valLog, acquired, released>>

\* attachments[0] = window->GetBackbuffer()
GetBackbuffer ==
    /\ pc = "get_backbuffer"
    /\ attachments' = [attachments EXCEPT ![1] = BackbufferHandle]
    /\ steps' = Append(steps, "get_backbuffer")
    /\ \E next \in Deref(window, AfterBackbuffer) : pc' = next
    /\ UNCHANGED <<sceneVars, createFails, variant, allocMayFail, rast, window, imguiContext,
                   imguiBound, renderer, closeRequested, fbSize, images, fb,
                   clearValues, showDemo, t0, cameraTheta, uniforms, exception,
                   backendClear, backendDraw, allocLog, freeLog, valLog,
                   acquired, released>>

\* ValidateDepthBuffer(*window, &attachments[1]), src/src/main.cpp:186-194
ValidateDepthBuffer ==
    /\ pc = "validate"
    /\ LET width == fbSize[1]
           height == fbSize[2]
           buffer == attachments[2]
       IN  IF ~IsDepthBufferValid(buffer, width, height)
           THEN \E result \in AllocateResults :
                  /\ images' = ImageAllocate(FreeAll(images, ValidateFrees(buffer)),
                                             result, width, height, "depth")
                  /\ freeLog' = freeLog \o FreeRecords(ValidateFrees(buffer), "validate")
                  /\ allocLog' = Append(allocLog, [width |-> width, height |-> height,
                                                   format |-> "depth", result |-> result])
                  /\ attachments' = [attachments EXCEPT ![2] = result]
                  /\ valLog' = LastTwo(Append(valLog,
                                   [width |-> width, height |-> height,
                                    before |-> buffer, after |-> result,
                                    allocs |-> 1, frees |-> ValidateFrees(buffer)]))
           ELSE /\ valLog' = LastTwo(Append(valLog,
                                   [width |-> width, height |-> height,
                                    before |-> buffer, after |-> buffer,
                                    allocs |-> 0, frees |-> << >>]))
                /\ UNCHANGED <<images, freeLog, allocLog, attachments>>
    /\ steps' = Append(steps, "validate")
    /\ \E next \in Deref(window, "camera") : pc' = next
    /\ UNCHANGED <<sceneVars, createFails, variant, allocMayFail, rast, window, imguiContext,
                   imguiBound, renderer, closeRequested, fbSize, fb,
                   clearValues, showDemo, t0, cameraTheta, uniforms, exception,
                   backendClear, backendDraw, acquired, released>>

\* Faulty variants of UpdateCamera: the view is taken from the advanced
\* angle; the angle advances by delta instead of delta * 0.1.
UpdateCameraAdvancesFirst ==
    /\ pc = "camera"
    /\ \E t1 \in t0..Min(t0 + MaxDelta, MaxTime) :
          LET delta == t1 - t0
          IN  /\ t0' = t1
              /\ uniforms' = [Projection |-> <<fb.width, fb.height>>,
                              View |-> cameraTheta + delta * ThetaRate]
              /\ cameraTheta' = cameraTheta + delta * ThetaRate
    /\ steps' = Append(steps, "camera")
    /\ pc' = "clear"
    /\ UNCHANGED <<sceneVars, createFails, variant, allocMayFail, rast, window, imguiContext,
                   imguiBound, renderer, closeRequested, fbSize, images,
                   attachments, fb, clearValues, showDemo, exception,
                   backendClear, backendDraw, allocLog, freeLog, valLog,
                   acquired, released>>

UpdateCameraWrongRate ==
    /\ pc = "camera"
    /\ \E t1 \in t0..Min(t0 + MaxDelta, MaxTime) :
          LET delta == t1 - t0
          IN  /\ t0' = t1
              /\ uniforms' = [Projection |-> <<fb.width, fb.height>>,
                              View |-> cameraTheta]
              /\ cameraTheta' = cameraTheta + delta
    /\ steps' = Append(steps, "camera")
    /\ pc' = "clear"
    /\ UNCHANGED <<sceneVars, createFails, variant, allocMayFail, rast, window, imguiContext,
                   imguiBound, renderer, closeRequested, fbSize, images,
                   attachments, fb, clearValues, showDemo, exception,
                   backendClear, backendDraw, allocLog, freeLog, valLog,
                   acquired, released>>

\* Faulty variant: the instances are generated again in every frame.
UpdateCameraRegeneratesInstances ==
    /\ pc = "camera"
    /\ \E t1 \in t0..Min(t0 + MaxDelta, MaxTime) :
          LET delta == t1 - t0
          IN  /\ t0' = t1
              /\ uniforms' = [Projection |-> <<fb.width, fb.height>>,
                              View |-> cameraTheta]
              /\ cameraTheta' = cameraTheta + delta * ThetaRate
    /\ LET made == GenerateInstances(<< >>, randStream, 0)
       IN  /\ instances' = made.instances
           /\ randStream' = made.stream
    /\ steps' = Append(steps, "camera")
    /\ pc' = "clear"
    /\ UNCHANGED <<pipeline, call, createFails, variant, allocMayFail, rast, window,
                   imguiContext, imguiBound, renderer, closeRequested, fbSize,
                   images, attachments, fb, clearValues, showDemo, exception,
                   backendClear, backendDraw, allocLog, freeLog, valLog,
                   acquired, released>>

\* src/src/main.cpp:331-352: cosTheta and sinTheta are taken from cameraTheta
\* before it is advanced; the projection uses the aspect of fb.
UpdateCamera ==
    /\ pc = "camera"
    /\ \E t1 \in t0..Min(t0 + MaxDelta, MaxTime) :
          LET delta == t1 - t0
          IN  /\ t0' = t1
              /\ uniforms' = [Projection |-> <<fb.width, fb.height>>,
                              View |-> cameraTheta]
              /\ cameraTheta' = cameraTheta + delta * ThetaRate
    /\ steps' = Append(steps, "camera")
    /\ pc' = "clear"
    /\ UNCHANGED <<sceneVars, createFails, variant, allocMayFail, rast, window, imguiContext,
                   imguiBound, renderer, closeRequested, fbSize, images,
                   attachments, fb, clearValues, showDemo, exception,
                   backendClear, backendDraw, allocLog, freeLog, valLog,
                   acquired, released>>

\* rast->ClearFramebuffer(&fb, clearValues); the exception is not caught
\* anywhere, so throwing ends the process in std::terminate.
ClearStep ==
    /\ pc = "clear"
    /\ ClearFramebuffer(fb, clearValues)
    /\ steps' = Append(steps, "clear")
    /\ IF exception' # NoException
       THEN pc' = "terminated"
       ELSE \E next \in BackendOutcomes(AfterClear) \cup Deref(rast.ptr, AfterClear) :
              pc' = next
    /\ UNCHANGED <<sceneVars, createFails, variant, allocMayFail, rast, window, imguiContext,
                   imguiBound, renderer, closeRequested, fbSize, images,
                   attachments, fb, clearValues, showDemo, t0, cameraTheta,
                   uniforms, backendDraw, allocLog, freeLog, valLog, acquired,
                   released>>

\* rast->RenderIndexed(call): call.framebuffer is &fb, call.uniform_data is
\* &uniforms.
RenderIndexed ==
    /\ pc = "draw"
    /\ backendDraw' = <<[fb |-> fb, attachments |-> attachments,
                         uniforms |-> uniforms, call |-> call[1],
                         instances |-> instances]>>
    /\ steps' = Append(steps, "draw")
    /\ \E next \in BackendOutcomes("overlay") \cup Deref(rast.ptr, "overlay") :
          pc' = next
    /\ UNCHANGED <<sceneVars, createFails, variant, allocMayFail, rast, window, imguiContext,
                   imguiBound, renderer, closeRequested, fbSize, images,
                   attachments, fb, clearValues, showDemo, t0, cameraTheta,
                   uniforms, exception, backendClear, allocLog, freeLog, valLog,
                   acquired, released>>

\* renderer->Render(ImGui::GetDrawData(), &fb)
OverlayRender ==
    /\ pc = "overlay"
    /\ steps' = Append(steps, "overlay")
    /\ pc' = "swap"
    /\ UNCHANGED <<sceneVars, createFails, variant, allocMayFail, rast, window, imguiContext,
                   imguiBound, renderer, closeRequested, fbSize, images,
                   attachments, fb, clearValues, showDemo, t0, cameraTheta,
                   uniforms, exception, backendClear, backendDraw, allocLog,
                   freeLog, valLog, acquired, released>>

\* window->SwapBuffers()
SwapBuffers ==
    /\ pc = "swap"
    /\ steps' = Append(steps, "swap")
    /\ \E next \in Deref(window, "while") : pc' = next
    /\ UNCHANGED <<sceneVars, createFails, variant, allocMayFail, rast, window, imguiContext,
                   imguiBound, renderer, closeRequested, fbSize, images,
                   attachments, fb, clearValues, showDemo, t0, cameraTheta,
                   uniforms, exception, backendClear, backendDraw, allocLog,
                   freeLog, valLog, acquired, released>>

(***************************************************************************)
(* Shutdown: src/src/main.cpp:361-368, src/unnamed/part_000:153-158        *)
(***************************************************************************)
\* Faulty variant: the depth attachment is not freed.
FreeDepthSkipped ==
    /\ pc = "free_depth"
    /\ released' = Append(released, "depth")
    /\ pc' = AfterShutdownStep(pc)
    /\ UNCHANGED <<sceneVars, createFails, variant, allocMayFail, rast, window, imguiContext,
                   imguiBound, renderer, closeRequested, fbSize, images,
                   attachments, fb, clearValues, showDemo, t0, cameraTheta,
                   uniforms, exception, backendClear, backendDraw, allocLog,
                   freeLog, valLog, steps, acquired>>

\* Faulty variant: the colour attachment is freed instead.
FreeDepthFreesColor ==
    /\ pc = "free_depth"
    /\ images' = ImageFree(images, attachments[1])
    /\ freeLog' = Append(freeLog, [ptr |-> attachments[1], site |-> "shutdown"])
    /\ released' = Append(released, "depth")
    /\ pc' = AfterShutdownStep(pc)
    /\ UNCHANGED <<sceneVars, createFails, variant, allocMayFail, rast, window, imguiContext,
                   imguiBound, renderer, closeRequested, fbSize, attachments,
                   fb, clearValues, showDemo, t0, cameraTheta, uniforms,
                   exception, backendClear, backendDraw, allocLog, valLog,
                   steps, acquired>>

\* image_free(attachments[1])
FreeDepth ==
    /\ pc = "free_depth"
    /\ images' = ImageFree(images, attachments[2])
    /\ freeLog' = Append(freeLog, [ptr |-> attachments[2], site |-> "shutdown"])
    /\ released' = Append(released, "depth")
    /\ pc' = AfterShutdownStep(pc)
    /\ UNCHANGED <<sceneVars, createFails, variant, allocMayFail, rast, window, imguiContext,
                   imguiBound, renderer, closeRequested, fbSize, attachments,
                   fb, clearValues, showDemo, t0, cameraTheta, uniforms,
                   exception, backendClear, backendDraw, allocLog, valLog,
                   steps, acquired>>

\* renderer.reset(): ~ImGuiRenderer, which also drops its copy of rast.
RendererReset ==
    /\ pc = "reset_renderer"
    /\ renderer' = FALSE
    /\ rast' = [rast EXCEPT !.refs = IF rast.ptr = Empty THEN @ ELSE @ - 1]
    /\ released' = Append(released, "imgui_renderer")
    /\ pc' = AfterShutdownStep(pc)
    /\ UNCHANGED <<sceneVars, createFails, variant, allocMayFail, window, imguiContext, imguiBound,
                   closeRequested, fbSize, images, attachments, fb, clearValues,
                   showDemo, t0, cameraTheta, uniforms, exception, backendClear,
                   backendDraw, allocLog, freeLog, valLog, steps, acquired>>

\* window.reset(): ~Window, window_destroy; the backbuffer goes with it.
WindowReset ==
    /\ pc = "reset_window"
    /\ window' = Empty
    /\ images' = [images EXCEPT ![BackbufferHandle].live = FALSE]
    /\ released' = IF window = Empty THEN released
                   ELSE Append(released, "window")
    /\ pc' = AfterShutdownStep(pc)
    /\ UNCHANGED <<sceneVars, createFails, variant, allocMayFail, rast, imguiContext, imguiBound,
                   renderer, closeRequested, fbSize, attachments, fb,
                   clearValues, showDemo, t0, cameraTheta, uniforms, exception,
                   backendClear, backendDraw, allocLog, freeLog, valLog, steps,
                   acquired>>

ImGuiDestroyContext ==
    /\ pc = "destroy_context"
    /\ imguiContext' = FALSE
    /\ released' = Append(released, "imgui_context")
    /\ pc' = AfterShutdownStep(pc)
    /\ UNCHANGED <<sceneVars, createFails, variant, allocMayFail, rast, window, imguiBound, renderer,
                   closeRequested, fbSize, images, attachments, fb, clearValues,
                   showDemo, t0, cameraTheta, uniforms, exception, backendClear,
                   backendDraw, allocLog, freeLog, valLog, steps, acquired>>

\* rast.reset(): the last owner, so ~Rasterizer runs; then return 0.
RasterizerReset ==
    /\ pc = "reset_rast"
    /\ rast' = [ptr |-> IF rast.refs = 1 THEN Empty ELSE rast.ptr,
                refs |-> IF rast.ptr = Empty THEN rast.refs ELSE rast.refs - 1]
    /\ released' = IF rast.refs = 1 THEN Append(released, "rasterizer")
                   ELSE released
    /\ pc' = AfterShutdownStep(pc)
    /\ UNCHANGED <<sceneVars, createFails, variant, allocMayFail, window, imguiContext, imguiBound,
                   renderer, closeRequested, fbSize, images, attachments, fb,
                   clearValues, showDemo, t0, cameraTheta, uniforms, exception,
                   backendClear, backendDraw, allocLog, freeLog, valLog, steps,
                   acquired>>

(***************************************************************************)
(* Specifications.                                                         *)
(***************************************************************************)
InitProgram ==
    /\ pc = "create_rast"
    /\ rast = [ptr |-> Empty, refs |-> 0]
    /\ window = Empty
    /\ imguiContext = FALSE
    /\ imguiBound = FALSE
    /\ renderer = FALSE
    /\ closeRequested = FALSE
    /\ fbSize = <<0, 0>>
    /\ images = << >>
    /\ attachments = << >>
    /\ fb = [attachment_count |-> 0, width |-> 0, height |-> 0]
    /\ clearValues = << >>
    /\ showDemo = TRUE
    /\ t0 = 0
    /\ cameraTheta = 0
    /\ uniforms = [Projection |-> <<0, 0>>, View |-> 0]
    /\ exception = NoException
    /\ backendClear = << >>
    /\ backendDraw = << >>
    /\ allocLog = << >>
    /\ freeLog = << >>
    /\ valLog = << >>
    /\ steps = << >>
    /\ acquired = << >>
    /\ released = << >>
    /\ instances = << >>
    /\ pipeline = << >>
    /\ call = << >>

\* main.cpp with an allocator that always returns an image.
Init ==
    /\ variant = MainCpp
    /\ allocMayFail = FALSE
    /\ randStream \in RandStreams
    /\ createFails = {}
    /\ InitProgram

\* main.cpp with an allocator that may return nullptr.
InitAllocFail ==
    /\ variant = MainCpp
    /\ allocMayFail = TRUE
    /\ randStream = <<0, 127, 128, 255, 511>>
    /\ createFails = {}
    /\ InitProgram

\* Either version of the program.
InitVariants ==
    /\ variant \in {MainCpp, Part000}
    /\ allocMayFail = FALSE
    /\ randStream = <<0, 127, 128, 255, 511>>
    /\ createFails = {}
    /\ InitProgram

\* main.cpp with a backend whose create calls may fail.
InitSetupFail ==
    /\ variant = MainCpp
    /\ allocMayFail = FALSE
    /\ randStream = <<0, 127, 128, 255, 511>>
    /\ createFails \in SUBSET {"window", "rasterizer"}
    /\ InitProgram

Next ==
    \/ RasterizerCreate
    \/ WindowCreate
    \/ ImGuiCreateContext
    \/ WindowInitImGui
    \/ ImGuiRendererCreate
    \/ SetupScene
    \/ WhileNotCloseRequested
    \/ WindowPoll
    \/ ImGuiNewFrame
    \/ ImGuiRender
    \/ GetFramebufferSize
    \/ GetBackbuffer
    \/ ValidateDepthBuffer
    \/ UpdateCamera
    \/ ClearStep
    \/ RenderIndexed
    \/ OverlayRender
    \/ SwapBuffers
    \/ FreeDepth
    \/ RendererReset
    \/ WindowReset
    \/ ImGuiDestroyContext
    \/ RasterizerReset

Spec == Init /\ [][Next]_vars
SpecAllocFail == InitAllocFail /\ [][Next]_vars
SpecVariants == InitVariants /\ [][Next]_vars

\* main() is one thread and every call it makes returns: it always takes its
\* next step.
FairSpec == Init /\ [][Next]_vars /\ WF_vars(Next)

SpecSetupFail == InitSetupFail /\ [][Next]_vars

(***************************************************************************)
(* Rasterizer::ClearFramebuffer on its own: one call with any attachment   *)
(* count and any clear-value list within the bounds.                       *)
(***************************************************************************)
ClearValueLists ==
    UNION {[1..n -> {ColorPixel, DepthPixel}] : n \in 0..MaxClearValues}

InitClear ==
    /\ variant = MainCpp
    /\ allocMayFail = FALSE
    /\ pc = "call_clear"
    /\ rast = [ptr |-> <<[m_Rasterizer |-> RasterizerHandle]>>, refs |-> 1]
    /\ createFails = {}
    /\ window = Empty
    /\ imguiContext = FALSE
    /\ imguiBound = FALSE
    /\ renderer = FALSE
    /\ closeRequested = FALSE
    /\ fbSize = InitialSize
    /\ images = <<[width |-> InitialSize[1], height |-> InitialSize[2],
                   format |-> "color", owner |-> "window", live |-> TRUE]>>
    /\ \E n \in 0..MaxAttachments :
          /\ attachments = [i \in 1..n |-> BackbufferHandle]
          /\ fb = [attachment_count |-> n, width |-> InitialSize[1],
                   height |-> InitialSize[2]]
    /\ clearValues \in ClearValueLists
    /\ showDemo = TRUE
    /\ t0 = 0
    /\ cameraTheta = 0
    /\ uniforms = [Projection |-> <<0, 0>>, View |-> 0]
    /\ exception = NoException
    /\ backendClear = << >>
    /\ backendDraw = << >>
    /\ allocLog = << >>
    /\ freeLog = << >>
    /\ valLog = << >>
    /\ steps = << >>
    /\ acquired = <<"rasterizer">>
    /\ released = << >>
    /\ randStream = << >>
    /\ instances = << >>
    /\ pipeline = << >>
    /\ call = << >>

CallClearFramebuffer ==
    /\ pc = "call_clear"
    /\ ClearFramebuffer(fb, clearValues)
    /\ pc' = IF exception' # NoException THEN "clear_threw" ELSE "clear_returned"
    /\ UNCHANGED <<sceneVars, createFails, variant, allocMayFail, rast, window, imguiContext,
                   imguiBound, renderer, closeRequested, fbSize, images,
                   attachments, fb, clearValues, showDemo, t0, cameraTheta,
                   uniforms, backendDraw, allocLog, freeLog, valLog, steps,
                   acquired, released>>

NextClear == CallClearFramebuffer

SpecClear == InitClear /\ [][NextClear]_vars

(***************************************************************************)
(* The instance generator on its own, src/src/main.cpp:241-283, over every *)
(* three values rand() can return in turn.                                 *)
(***************************************************************************)
InitInstances ==
    /\ variant = MainCpp
    /\ allocMayFail = FALSE
    /\ pc = "generate"
    /\ rast = [ptr |-> <<[m_Rasterizer |-> RasterizerHandle]>>, refs |-> 1]
    /\ createFails = {}
    /\ window = Empty
    /\ imguiContext = FALSE
    /\ imguiBound = FALSE
    /\ renderer = FALSE
    /\ closeRequested = FALSE
    /\ fbSize = InitialSize
    /\ images = << >>
    /\ attachments = <<Null, Null>>
    /\ fb = [attachment_count |-> 2, width |-> 0, height |-> 0]
    /\ clearValues = << >>
    /\ showDemo = TRUE
    /\ t0 = 0
    /\ cameraTheta = 0
    /\ uniforms = [Projection |-> <<0, 0>>, View |-> 0]
    /\ exception = NoException
    /\ backendClear = << >>
    /\ backendDraw = << >>
    /\ allocLog = << >>
    /\ freeLog = << >>
    /\ valLog = << >>
    /\ steps = << >>
    /\ acquired = <<"rasterizer">>
    /\ released = << >>
    /\ randStream \in [1..ChannelCount -> RandValues]
    /\ instances = << >>
    /\ pipeline = << >>
    /\ call = << >>

CallGenerateInstances ==
    /\ pc = "generate"
    /\ LET made == GenerateInstances(<< >>, randStream, 0)
       IN  /\ instances' = made.instances
           /\ randStream' = made.stream
    /\ pc' = "generated"
    /\ UNCHANGED <<pipeline, call, createFails, variant, allocMayFail, rast, window,
                   imguiContext, imguiBound, renderer, closeRequested, fbSize,
                   images, attachments, fb, clearValues, showDemo, t0,
                   cameraTheta, uniforms, exception, backendClear, backendDraw,
                   allocLog, freeLog, valLog, steps, acquired, released>>

NextInstances == CallGenerateInstances

SpecInstances == InitInstances /\ [][NextInstances]_vars

(***************************************************************************)
(* Properties.                                                             *)
(***************************************************************************)
DepthPtr == attachments[2]
ColorPtr == attachments[1]

\* C1: ClearFramebuffer returns, having forwarded the framebuffer and the
\* values to framebuffer_clear, exactly when the list holds attachment_count
\* values; otherwise it throws "Attachment size mismatch!" and
\* framebuffer_clear is not called.
C1_ClearSucceedsIffCountMatches ==
    /\ pc = "clear_returned" =>
          /\ Len(clearValues) = fb.attachment_count
          /\ exception = NoException
          /\ backendClear = <<[fb |-> fb, attachments |-> attachments,
                               values |-> clearValues]>>
    /\ pc = "clear_threw" =>
          /\ Len(clearValues) # fb.attachment_count
          /\ exception = AttachmentSizeMismatch
          /\ backendClear = << >>

C1_Witness ==
    /\ pc = "clear_threw"
    /\ fb.attachment_count = 2
    /\ Len(clearValues) = 3

\* C2: when main.cpp is about to clear and to draw, the depth attachment is
\* a live image whose width and height are those of the framebuffer and of
\* the colour attachment.
C2_DepthMatchesColorAtDraw ==
    (variant = MainCpp /\ pc \in {"clear", "draw"}) =>
        /\ DepthPtr # Null
        /\ images[DepthPtr].live
        /\ images[DepthPtr].format = "depth"
        /\ images[DepthPtr].width = fb.width
        /\ images[DepthPtr].height = fb.height
        /\ images[ColorPtr].width = fb.width
        /\ images[ColorPtr].height = fb.height

\* a draw after two resizes, the last one changing the height only
C2_Witness ==
    /\ pc = "draw"
    /\ Len(allocLog) = 3
    /\ allocLog[2].width = allocLog[3].width
    /\ allocLog[2].height # allocLog[3].height
    /\ images[DepthPtr].height = fb.height

\* C3: when the first of two consecutive validations starts without a depth
\* attachment and both see the same framebuffer size, the first allocates
\* once, the second neither allocates nor frees and leaves the same image,
\* so there is one allocation in total.
C3_ValidationIdempotent ==
    (/\ Len(valLog) = 2
     /\ valLog[1].before = Null
     /\ valLog[1].width = valLog[2].width
     /\ valLog[1].height = valLog[2].height) =>
        /\ valLog[1].allocs = 1
        /\ valLog[1].after # Null
        /\ valLog[2].allocs = 0
        /\ valLog[2].frees = << >>
        /\ valLog[2].before = valLog[1].after
        /\ valLog[2].after = valLog[1].after
        /\ released = << >> => images[valLog[2].after].live
        /\ Len(allocLog) = 1

C3_Witness ==
    /\ Len(valLog) = 2
    /\ valLog[1].before = Null
    /\ valLog[1].width = valLog[2].width
    /\ valLog[1].height = valLog[2].height
    /\ pc = "camera"

\* C4: when two consecutive validations see different framebuffer sizes, the
\* second calls image_free once, on the old depth image, and image_allocate
\* once; the new depth attachment has the new size and is another image.
C4_ResizeReallocates ==
    (/\ Len(valLog) = 2
     /\ valLog[1].after # Null
     /\ <<valLog[1].width, valLog[1].height>> # <<valLog[2].width, valLog[2].height>>) =>
        /\ valLog[2].frees = <<valLog[1].after>>
        /\ valLog[2].allocs = 1
        /\ valLog[2].after # Null
        /\ valLog[2].after # valLog[1].after
        /\ images[valLog[2].after].width = valLog[2].width
        /\ images[valLog[2].after].height = valLog[2].height
        /\ ~images[valLog[1].after].live
        /\ pc = "camera" => DepthPtr = valLog[2].after /\ images[DepthPtr].live

\* 1600x900 in one frame, 800x600 in the next
C4_Witness ==
    /\ Len(valLog) = 2
    /\ <<valLog[1].width, valLog[1].height>> = <<1600, 900>>
    /\ <<valLog[2].width, valLog[2].height>> = <<800, 600>>
    /\ pc = "camera"

FrameOrder ==
    <<"poll", "new_frame", "imgui_render", "get_size", "get_backbuffer",
      "validate", "camera", "clear", "draw", "overlay", "swap">>
LoopPcs == {"while"} \cup {FrameOrder[i] : i \in 1..Len(FrameOrder)}
ShutdownOrder ==
    <<"depth", "imgui_renderer", "window", "imgui_context", "rasterizer">>
ExitPcs == {"free_depth", "reset_renderer", "reset_window", "destroy_context",
            "reset_rast", "done"}

\* C5: the calls of an iteration of main.cpp's loop are always a prefix of
\* poll, NewFrame, Render, GetFramebufferSize, GetBackbuffer,
\* ValidateDepthBuffer, camera update, ClearFramebuffer, RenderIndexed,
\* overlay Render, SwapBuffers; the next call is the next of that list, and
\* an iteration that has ended made all of them, once each.
C5_FrameStepsInOrder ==
    /\ IsPrefix(steps, FrameOrder)
    /\ pc \in (LoopPcs \ {"while"}) => pc = FrameOrder[Len(steps) + 1]
    /\ (pc \in ({"while"} \cup ExitPcs) /\ steps # << >>) => steps = FrameOrder

C5_Witness ==
    /\ pc = "while"
    /\ steps = FrameOrder
    /\ ~closeRequested

ShutdownFrees == SelectSeq(freeLog, LAMBDA f : f.site = "shutdown")
FreesOf(ptr) == Len(SelectSeq(freeLog, LAMBDA f : f.ptr = ptr))
AfterFreeDepthPcs == ExitPcs \ {"free_depth"}

\* C6 as stated: at shutdown a present depth attachment is freed exactly
\* once, and image_free is called only when a depth attachment is present.
C6_FreeOnlyWhenPresent ==
    /\ (pc = "done" /\ DepthPtr # Null) =>
          FreesOf(DepthPtr) = 1 /\ ~images[DepthPtr].live
    /\ \A i \in 1..Len(freeLog) :
          freeLog[i].site = "shutdown" => freeLog[i].ptr # Null

\* C6 as amended: shutdown calls image_free exactly once, on attachments[1],
\* present or not; a present depth attachment is thereby freed exactly once,
\* and with none present the call is image_free(nullptr).
C6_FreeOnceUnconditionally ==
    /\ pc \in AfterFreeDepthPcs =>
          /\ Len(ShutdownFrees) = 1
          /\ ShutdownFrees[1].ptr = DepthPtr
          /\ DepthPtr # Null => FreesOf(DepthPtr) = 1 /\ ~images[DepthPtr].live
          /\ DepthPtr = Null => allocLog = << >>
    /\ pc \notin AfterFreeDepthPcs => ShutdownFrees = << >>

C6_Witness ==
    /\ pc = "done"
    /\ DepthPtr # Null
    /\ Len(allocLog) = 2
    /\ FreesOf(DepthPtr) = 1

OverlayResources == {"imgui_renderer", "window", "imgui_context"}
Only(s, set) == SelectSeq(s, LAMBDA r : r \in set)

\* C7 as stated: the depth attachment is released first, then the overlay
\* renderer, the window and the ImGui context are torn down in the reverse
\* of the order in which they were acquired.
C7_ReverseAcquisitionOrder ==
    pc = "done" =>
        /\ released[1] = "depth"
        /\ Only(released, OverlayResources) = Reverse(Only(acquired, OverlayResources))

\* C7 as amended: the depth attachment is released first, then the overlay
\* renderer, the window, the ImGui context and the rasterizer, in that
\* order; the window, acquired before the ImGui context, goes before it.
C7_TeardownOrder ==
    /\ IsPrefix(acquired, <<"rasterizer", "window", "imgui_context", "imgui_renderer">>)
    /\ IsPrefix(released, ShutdownOrder)
    /\ pc = "done" =>
          /\ released = ShutdownOrder
          /\ Only(acquired, OverlayResources) = <<"window", "imgui_context", "imgui_renderer">>
          /\ Only(released, OverlayResources) = <<"imgui_renderer", "window", "imgui_context">>

C7_Witness ==
    /\ pc = "done"
    /\ released = ShutdownOrder
    /\ FreesOf(DepthPtr) = 1

LeavesLoopOnlyOnClose ==
    (pc \in LoopPcs /\ pc' \notin LoopPcs) =>
        (pc = "while" /\ closeRequested /\ pc' \in ExitPcs)

LeavesLoopOnClose ==
    (pc = "while" /\ closeRequested) => pc' \in ExitPcs

NoFrameStepAfterExit ==
    pc \in ExitPcs =>
        (pc' \in ExitPcs /\ steps' = steps /\ backendClear' = backendClear
           /\ backendDraw' = backendDraw)

\* C8: the loop is left only from its condition with the close request set,
\* and then into the shutdown; once there no call of the loop is made
\* again; and once the close request is set main() returns.
C8_CloseRequestIsOnlyExit ==
    /\ [][LeavesLoopOnlyOnClose]_vars
    /\ [][LeavesLoopOnClose]_vars
    /\ [][NoFrameStepAfterExit]_vars
    /\ (closeRequested ~> pc = "done")

C8_Witness ==
    /\ pc = "done"
    /\ closeRequested
    /\ steps = FrameOrder
    /\ Len(allocLog) = 2

\* C9: in both versions of the program the clear-value list is as long as
\* the framebuffer has attachments (2 in main.cpp, 1 in part_000), so
\* ClearFramebuffer never throws in the loop.
C9_ClearCountMatchesInLoop ==
    /\ exception = NoException
    /\ pc # "terminated"
    /\ pc \in (LoopPcs \cup ExitPcs) =>
          /\ Len(clearValues) = fb.attachment_count
          /\ fb.attachment_count = Len(attachments)
          /\ fb.attachment_count = IF variant = MainCpp THEN 2 ELSE 1
    /\ backendClear # << >> =>
          Len(backendClear[1].values) = backendClear[1].fb.attachment_count

C9_Witness ==
    /\ variant = Part000
    /\ pc = "swap"
    /\ backendClear # << >>
    /\ Len(backendClear[1].values) = 1

\* C10 as stated: after image_allocate has returned nullptr the loop never
\* reaches the clear or the draw with a null depth attachment, and
\* image_allocate is not called again.
C10_AllocFailureAborts ==
    /\ pc \in {"clear", "draw"} => DepthPtr # Null
    /\ \A i \in 1..Len(allocLog) :
          allocLog[i].result = Null => i = Len(allocLog)

AllocatedPtrs == {allocLog[i].result : i \in 1..Len(allocLog)} \ {Null}

\* C11: every image_allocate call is for a depth image; every image_free
\* call is on nullptr or on an image that ValidateDepthBuffer allocated,
\* never on the backbuffer, which stays alive until the window is destroyed.
C11_OnlyDepthAllocatedAndFreed ==
    /\ \A i \in 1..Len(allocLog) : allocLog[i].format = "depth"
    /\ \A i \in 1..Len(freeLog) :
          /\ freeLog[i].ptr # BackbufferHandle
          /\ freeLog[i].ptr \in AllocatedPtrs \cup {Null}
    /\ \A i \in 1..Len(images) :
          images[i].owner = "window" =>
              (i = BackbufferHandle /\ FreesOf(i) = 0
                 /\ ("window" \in {released[k] : k \in 1..Len(released)} \/ images[i].live))

C11_Witness ==
    /\ pc = "done"
    /\ Len(freeLog) = 3
    /\ freeLog[2].ptr # Null
    /\ freeLog[3].ptr # Null
    /\ freeLog[3].site = "shutdown"
    /\ ColorPtr = BackbufferHandle

\* C12: the orbit angle is 0.1 rad per second of elapsed time (the sum of
\* the frames' deltas, which is what t0 has advanced by since it was taken):
\* in milliradians, cameraTheta * 10 = t0 * 1000; while no time has elapsed
\* the angle and the angle the view is built from stay 0.
C12_ThetaIsTenthOfElapsed ==
    /\ cameraTheta * 10 = t0 * 1000
    /\ t0 = 0 =>
          /\ cameraTheta = 0
          /\ uniforms.View = 0
          /\ backendDraw # << >> => backendDraw[1].uniforms.View = 0

C12_Witness ==
    /\ pc = "clear"
    /\ t0 = 2
    /\ cameraTheta = 200

\* C14 as stated: the view matrix of a frame's draw is derived from the
\* angle as advanced in that frame.
C14_ViewFromAdvancedTheta ==
    pc \in {"clear", "draw"} => uniforms.View = cameraTheta

ViewFromThetaBeforeAdvance ==
    pc = "camera" =>
        /\ uniforms'.View = cameraTheta
        /\ cameraTheta' = cameraTheta + (t0' - t0) * ThetaRate
        /\ uniforms'.Projection = <<fb.width, fb.height>>

\* C14 as amended: within each frame the view is derived from the angle as
\* it was before this frame's advance; the angle is advanced by
\* delta * 0.1 in the same step, so the draw sees the time elapsed up to
\* the previous frame.
C14_ViewFromThetaBeforeAdvance == [][ViewFromThetaBeforeAdvance]_vars

C14_Witness ==
    /\ pc = "draw"
    /\ uniforms.View = 100
    /\ cameraTheta = 200

\* C16 as stated: a validation that starts without a depth attachment
\* allocates an image of the current size and calls image_free not at all.
C16_FirstValidationNeverFrees ==
    \A i \in 1..Len(valLog) :
        valLog[i].before = Null =>
            /\ valLog[i].allocs = 1
            /\ valLog[i].after # Null
            /\ valLog[i].frees = << >>

\* C16 as amended: a validation that starts without a depth attachment
\* allocates a depth image of the current framebuffer size and calls
\* image_free once, on nullptr, which releases no image.
C16_FirstValidationFreesNull ==
    \A i \in 1..Len(valLog) :
        valLog[i].before = Null =>
            /\ valLog[i].allocs = 1
            /\ valLog[i].after # Null
            /\ images[valLog[i].after].width = valLog[i].width
            /\ images[valLog[i].after].height = valLog[i].height
            /\ images[valLog[i].after].format = "depth"
            /\ valLog[i].frees = <<Null>>
            /\ (Len(valLog) = 1 /\ released = << >>) =>
                  \A k \in 1..Len(images) : images[k].live

C16_Witness ==
    /\ pc = "camera"
    /\ Len(valLog) = 1
    /\ valLog[1].before = Null
    /\ valLog[1].width = 800
    /\ freeLog = <<[ptr |-> Null, site |-> "validate"]>>

DepthImages == {i \in 1..Len(images) : images[i].owner = "main"}
LiveDepthImages == {i \in DepthImages : images[i].live}

\* C18: at most one depth image is live, and it is the depth attachment;
\* no depth image is passed to image_free twice; the depth attachment is
\* live when the framebuffer is cleared, drawn to and overlaid; when main()
\* returns every depth image has been freed, once.
C18_DepthImageLifecycle ==
    /\ Cardinality(LiveDepthImages) <= 1
    /\ \A i \in DepthImages :
          /\ FreesOf(i) <= 1
          /\ images[i].live <=> FreesOf(i) = 0
          /\ images[i].live => (Len(attachments) = 2 /\ DepthPtr = i)
    /\ (pc \in {"clear", "draw", "overlay"} /\ DepthPtr # Null) =>
          DepthPtr \in LiveDepthImages
    /\ pc = "done" =>
          /\ LiveDepthImages = {}
          /\ \A i \in DepthImages : FreesOf(i) = 1

C18_Witness ==
    /\ pc = "done"
    /\ Cardinality(DepthImages) = 3
    /\ LiveDepthImages = {}
(***************************************************************************)
(* C13: the generator makes exactly 6 instances, and in every instance the *)
(* low byte of Color is 0xFF and bits 8-15, 16-23 and 24-31 hold the low   *)
(* bytes of the three values rand() returned for it, in that order.  The   *)
(* stream repeats after three values, so after 18 calls it is back where   *)
(* it started and randStream[j] is the j-th value drawn for each instance. *)
(***************************************************************************)
C13_InstanceColorsPacked ==
    pc = "generated" =>
        /\ Len(instances) = 6
        /\ \A i \in 1..Len(instances) :
              /\ ByteAt(instances[i].Color, 0) = 255
              /\ \A j \in 1..3 :
                    ByteAt(instances[i].Color, j) = randStream[j] % 256

C13_Witness ==
    /\ pc = "generated"
    /\ randStream = <<127, 511, 128>>
    /\ Len(instances) = 6
    /\ ByteAt(instances[6].Color, 0) = 255
    /\ ByteAt(instances[6].Color, 1) = 127
    /\ ByteAt(instances[6].Color, 2) = 255
    /\ ByteAt(instances[6].Color, 3) = 128


(***************************************************************************)
(* C17: a step of the frame loop changes, of main()'s objects, only fb's   *)
(* width and height, the two attachment pointers, uniforms, cameraTheta    *)
(* and t0.  The instances, the pipeline, the draw call, the clear values,  *)
(* the attachment count and the handles stay as setup left them, and in    *)
(* the loop the call draws 3 indices and 6 instances.                      *)
(***************************************************************************)
SceneAsSetUp ==
    pc \in LoopPcs =>
        /\ Len(instances) = 6
        /\ pipeline = <<PipelineInit>>
        /\ Len(call) = 1
        /\ call[1].pipeline = "&pipeline"
        /\ call[1].framebuffer = "&fb"
        /\ call[1].vertices = "vbufs.data()"
        /\ call[1].indices = "s_Indices.data()"
        /\ call[1].index_count = 3
        /\ call[1].instance_count = 6
        /\ fb.attachment_count = 2
        /\ Len(attachments) = 2
        /\ backendDraw # << >> =>
              /\ backendDraw[1].call = call[1]
              /\ backendDraw[1].instances = instances

FrameKeepsScene ==
    pc \in LoopPcs =>
        /\ instances' = instances
        /\ pipeline' = pipeline
        /\ call' = call
        /\ randStream' = randStream
        /\ clearValues' = clearValues
        /\ fb'.attachment_count = fb.attachment_count
        /\ Len(attachments') = Len(attachments)
        /\ rast' = rast
        /\ window' = window
        /\ renderer' = renderer
        /\ imguiContext' = imguiContext
        /\ imguiBound' = imguiBound

C17_FrameKeepsScene == [][FrameKeepsScene]_vars /\ []SceneAsSetUp

C17_Witness ==
    /\ pc = "while"
    /\ steps = FrameOrder
    /\ Len(allocLog) = 2
    /\ cameraTheta > 0
    /\ Len(instances) = 6
    /\ backendDraw # << >>
    /\ backendDraw[1].call.instance_count = 6

SetupPcs == {"create_rast", "create_window", "create_context", "init_imgui",
             "create_renderer"}

\* A factory whose backend call failed has returned an empty pointer, and
\* no Window or Rasterizer holds a null backend handle.
FactoryNeverWrapsNull ==
    /\ window # Empty => window[1].m_Window # Null
    /\ rast.ptr # Empty => rast.ptr[1].m_Rasterizer # Null
    /\ ("rasterizer" \in createFails /\ pc # "create_rast") => rast.ptr = Empty
    /\ "window" \in createFails => window = Empty

\* After a failed creation main() is still in setup or has crashed there:
\* nothing of a frame has run.
SetupFailureStops ==
    createFails # {} =>
        /\ pc \in SetupPcs \cup {"crashed"}
        /\ steps = << >>
        /\ backendClear = << >>
        /\ backendDraw = << >>

====
